---------------------------- MODULE Spec2Model ----------------------------
(***************************************************************************)
(* A model of run_imagecap_finetuning.py: the batch collator               *)
(* (DataCollatorWithPadding.__call__), the model dispatcher (load_model),  *)
(* the per-row preprocessing (prepare_dataset / process_dataset) and the   *)
(* control flow of main().                                                 *)
(*                                                                         *)
(* Python values are modelled as follows.  A dict is a record whose DOMAIN *)
(* is the set of its keys.  An optional value is None or Some(v).  A       *)
(* string that the code inspects character by character (an architecture   *)
(* name) is a sequence of one-character strings.  Python's 0-based list    *)
(* positions are kept where the code reports them (enumerate).             *)
(***************************************************************************)
EXTENDS Integers, Sequences, FiniteSets, TLC

VARIABLES
    \* ---- DataCollatorWithPadding.__call__ ----
    features,       \* the list of per-sample dicts handed to the collator
    c_pc,           \* "call" | "returned" | "raised"
    batch,          \* the returned batch, NoBatch before / without a return
    c_raised,       \* the exception that left __call__, NoError if none
    c_errors,       \* logger.error lines: the 0-based indices logged, in order
    \* ---- load_model ----
    architectures,  \* config.architectures: None or Some(list of names)
    l_pc,           \* "call" | "returned" | "raised"
    model,          \* load_model's return value, None or Some(model)
    l_raised,       \* the exception that left load_model, NoError if none
    l_warnings,     \* number of logger.warning lines
    l_loads,        \* the from_pretrained calls made, in order
    \* ---- prepare_dataset / process_dataset ----
    dataset,        \* the raw dataset handed to process_dataset
    web,            \* what an HTTP GET of each URL meets
    p_pc,           \* "call" | "returned" | "raised"
    PIL_dataset,    \* the mapped dataset (before the filter)
    filtered_dataset, \* process_dataset's return value
    p_gets,         \* per row, the number of HTTP GET requests issued
    p_warnings,     \* per row, the number of logger.warning lines
    p_raised,       \* the exception that left process_dataset, NoError if none
    \* ---- main ----
    pc,             \* the step of main() that runs next, or how main() ended
    args,           \* the parsed arguments and what they name (hub, config)
    raw_datasets,   \* DatasetDict: split name -> raw dataset
    vectorized_datasets, \* DatasetDict: split name -> prepared dataset
    config,         \* main's local `config`: Unset until AutoConfig loads it
    m_model,        \* main's local `model`: Unset, None or Some(model)
    m_raised,       \* the exception that ended main(), NoError if none
    trace           \* the calls main() has made that reach outside it, in order

collator_vars == <<features, c_pc, batch, c_raised, c_errors>>
loader_vars == <<architectures, l_pc, model, l_raised, l_warnings, l_loads>>
prep_vars == <<dataset, web, p_pc, PIL_dataset, filtered_dataset, p_gets,
               p_warnings, p_raised>>
main_vars == <<pc, args, raw_datasets, vectorized_datasets, config, m_model,
               m_raised, trace>>
vars == <<collator_vars, loader_vars, prep_vars, main_vars>>

-----------------------------------------------------------------------------
(* Python values *)

None == [none |-> TRUE]
Some(v) == [val |-> v]
NoError == [type |-> "none"]
NoBatch == [none |-> TRUE]
Unset == [unset |-> TRUE]
NoArgs == [parsed |-> FALSE]
EmptyDatasetDict == <<>>

\* The sequences over S of length lo..hi.
SeqsOf(S, lo, hi) == UNION {[1..n -> S] : n \in lo..hi}

Max(S) == CHOOSE m \in S : \A k \in S : k <= m

-----------------------------------------------------------------------------
(* Bounds *)

MaxSeqLen == 2
MaxBatch == 2

\* Token ids of the tokenizer's vocabulary; pad_token_id is one of them.
Vocab == 0..2
\* Pixel tensors, as produced by the image processor: a batch of one image.
Pixels == {<<7>>}

-----------------------------------------------------------------------------
(* DataCollatorWithPadding *)

pad_token_id == 0
IgnoreIndex == -100

\* tokenizer.pad({'input_ids': ...}, padding=True): right-pad every row to the
\* longest row of the batch.
PadRow(row, width, fill) ==
    [p \in 1..width |-> IF p <= Len(row) THEN row[p] ELSE fill]

tokenizer_pad(input_ids) ==
    LET width == Max({Len(input_ids[r]) : r \in DOMAIN input_ids} \cup {0})
    IN  [input_ids |->
            [r \in DOMAIN input_ids |-> PadRow(input_ids[r], width, pad_token_id)],
         attention_mask |->
            [r \in DOMAIN input_ids |->
                [p \in 1..width |-> IF p <= Len(input_ids[r]) THEN 1 ELSE 0]]]

\* labels = batch["input_ids"].clone(); labels[labels == pad_token_id] = -100
mask_labels(padded) ==
    [r \in DOMAIN padded |->
        [p \in DOMAIN padded[r] |->
            IF padded[r][p] = pad_token_id THEN IgnoreIndex ELSE padded[r][p]]]

\* torch.tensor(f['pixel_values']).squeeze(0)
squeeze0(t) == IF Len(t) = 1 THEN t[1] ELSE t

\* The 0-based positions of the features without an 'input_ids' key, in the
\* order the validation loop meets them.
RECURSIVE MissingFrom(_, _)
MissingFrom(fs, i) ==
    IF i > Len(fs) THEN <<>>
    ELSE (IF "input_ids" \notin DOMAIN fs[i] THEN <<i - 1>> ELSE <<>>)
         \o MissingFrom(fs, i + 1)

\* Mutant: the count is set, not incremented (e = 1 for e += 1).
InputIdsErrorCountsOne(e, n) == [type |-> "ValueError", e |-> 1, n |-> n]

\* The exception raised after the validation loop: its message carries e and
\* len(features).
InputIdsError(e, n) == [type |-> "ValueError", e |-> e, n |-> n]

Feature ==
    {[pixel_values |-> pv, input_ids |-> ids, attention_mask |-> [p \in DOMAIN ids |-> 1]] :
        pv \in Pixels, ids \in SeqsOf(Vocab, 1, MaxSeqLen)}
    \cup {[pixel_values |-> pv] : pv \in Pixels}

\* __call__, when some feature lacks input_ids: one error line per such
\* feature, then ValueError.
CollateInvalid ==
    /\ c_pc = "call"
    /\ LET missing == MissingFrom(features, 1)
           e == Len(missing)
       IN  /\ e > 0
           /\ c_errors' = missing
           /\ c_raised' = InputIdsError(e, Len(features))
    /\ c_pc' = "raised"
    /\ UNCHANGED <<features, batch, loader_vars, prep_vars, main_vars>>

\* __call__ on an empty list: torch.stack of an empty list raises.
CollateEmpty ==
    /\ c_pc = "call"
    /\ features = <<>>
    /\ c_raised' = [type |-> "RuntimeError"]
    /\ c_pc' = "raised"
    /\ UNCHANGED <<features, batch, c_errors, loader_vars, prep_vars, main_vars>>

\* __call__ on a non-empty list of features that all carry input_ids.
CollateBatch ==
    /\ c_pc = "call"
    /\ features # <<>>
    /\ Len(MissingFrom(features, 1)) = 0
    /\ LET pixel_values == [r \in DOMAIN features |-> squeeze0(features[r].pixel_values)]
           input_ids == [r \in DOMAIN features |-> features[r].input_ids]
           padded == tokenizer_pad(input_ids)
       IN  batch' = [input_ids |-> padded.input_ids,
                     attention_mask |-> padded.attention_mask,
                     pixel_values |-> pixel_values,
                     labels |-> mask_labels(padded.input_ids)]
    /\ c_pc' = "returned"
    /\ UNCHANGED <<features, c_raised, c_errors, loader_vars, prep_vars, main_vars>>


-----------------------------------------------------------------------------
(* load_model *)

GitForCausalLM ==
    <<"G", "i", "t", "F", "o", "r", "C", "a", "u", "s", "a", "l", "L", "M">>
BlipForConditionalGeneration ==
    <<"B", "l", "i", "p", "F", "o", "r", "C", "o", "n", "d", "i", "t", "i", "o",
      "n", "a", "l", "G", "e", "n", "e", "r", "a", "t", "i", "o", "n">>
VisionEncoderDecoderModel ==
    <<"V", "i", "s", "i", "o", "n", "E", "n", "c", "o", "d", "e", "r", "D", "e",
      "c", "o", "d", "e", "r", "M", "o", "d", "e", "l">>

\* The dict literal of load_model, in insertion order (the order .items()
\* iterates in).
model_class_mapping ==
    << [arch_name |-> GitForCausalLM, auto_class |-> "AutoModelForCausalLM"],
       [arch_name |-> BlipForConditionalGeneration, auto_class |-> "AutoModelForVision2Seq"],
       [arch_name |-> VisionEncoderDecoderModel, auto_class |-> "AutoModelForVision2Seq"] >>

\* Python's `s in t` on strings.
IsSubstring(s, t) ==
    \E i \in 0..(Len(t) - Len(s)) : SubSeq(t, i + 1, i + Len(s)) = s

\* Python truthiness of an optional list or string: None and empty are falsy.
Truthy(x) == x # None /\ Len(x.val) > 0

\* Mutant: the last declared name instead of the first ([-1] for [0]).
last_architecture(cfg) ==
    IF Truthy(cfg.architectures)
    THEN Some(cfg.architectures.val[Len(cfg.architectures.val)]) ELSE None

\* architecture = cfg.architectures[0] if cfg.architectures else None
first_architecture(cfg) ==
    IF Truthy(cfg.architectures) THEN Some(cfg.architectures.val[1]) ELSE None

\* The for loop with its break: the auto_class of the first entry, from
\* position i on, whose arch_name occurs in the architecture; None if none.
RECURSIVE find_model_class(_, _, _)
find_model_class(mapping, i, architecture) ==
    IF i > Len(mapping) THEN None
    ELSE IF IsSubstring(mapping[i].arch_name, architecture)
         THEN Some(mapping[i].auto_class)
         ELSE find_model_class(mapping, i + 1, architecture)

\* load_model(checkpoint, cfg): what it returns or raises, the warnings it
\* logs and the from_pretrained calls it makes.
load_model(checkpoint, cfg) ==
    LET architecture == first_architecture(cfg)
    IN  IF ~Truthy(architecture)
        THEN [ret |-> None, raised |-> [type |-> "ValueError"], warnings |-> 0,
              loads |-> <<>>]
        ELSE LET model_class == find_model_class(model_class_mapping, 1, architecture.val)
             IN  IF model_class = None
                 THEN [ret |-> None, raised |-> NoError, warnings |-> 1, loads |-> <<>>]
                 ELSE LET call == [auto_class |-> model_class.val, checkpoint |-> checkpoint]
                      IN  [ret |-> Some(call), raised |-> NoError, warnings |-> 0,
                           loads |-> <<call>>]

\* Architecture names a configuration may declare: the three of the table,
\* an unknown one, the empty string, a fragment inside a longer name, names
\* holding two fragments (in either order), and a truncated fragment.
SomeUnknownArch ==
    <<"S", "o", "m", "e", "U", "n", "k", "n", "o", "w", "n", "A", "r", "c", "h">>
ArchNames ==
    { GitForCausalLM, BlipForConditionalGeneration, VisionEncoderDecoderModel,
      SomeUnknownArch, <<>>,
      <<"T", "F">> \o GitForCausalLM,
      <<"T", "F">> \o VisionEncoderDecoderModel \o <<"2">>,
      GitForCausalLM \o BlipForConditionalGeneration,
      VisionEncoderDecoderModel \o GitForCausalLM,
      SubSeq(GitForCausalLM, 1, 12) }

MaxArchs == 2
Checkpoints == {"microsoft/git-base"}

\* One call of load_model.
LoadModel ==
    /\ l_pc = "call"
    /\ \E checkpoint \in Checkpoints :
        LET r == load_model(checkpoint, [architectures |-> architectures])
        IN  /\ model' = r.ret
            /\ l_raised' = r.raised
            /\ l_warnings' = r.warnings
            /\ l_loads' = r.loads
            /\ l_pc' = IF r.raised = NoError THEN "returned" ELSE "raised"
    /\ UNCHANGED <<architectures, collator_vars, prep_vars, main_vars>>

-----------------------------------------------------------------------------
(* prepare_dataset and process_dataset *)

MaxRows == 3

\* Python's exception classes, each with the classes it derives from.
\* requests.RequestException derives from IOError; PIL's
\* UnidentifiedImageError derives from OSError, which is IOError.
Exc(type) ==
    [type |-> type,
     bases |-> CASE type \in {"Timeout", "ConnectionError", "HTTPError"} ->
                        {type, "RequestException", "IOError"}
                 [] type = "UnidentifiedImageError" -> {type, "IOError"}
                 [] OTHER -> {type}]

\* What an HTTP GET of a URL can meet: no answer within the timeout, no
\* connection, or a response with a status and a body.
Response(status, content) == [outcome |-> "response", status |-> status, content |-> content]
WebResponses ==
    { [outcome |-> "timeout"], [outcome |-> "connection_error"],
      Response(200, "image"), Response(200, "garbage"),
      Response(300, "image"), Response(404, "garbage"), Response(503, "garbage") }

URLs == {"http://a/1.jpg", "http://b/2.jpg"}
Captions == {<<"a", "dog">>, <<"broken">>}

\* The image column holds a decoded in-memory image or a URL string.
InMemoryImage == [kind |-> "Image", data |-> 1]
UrlImage(u) == [kind |-> "str", url |-> u]
RawSample ==
    {[image |-> im, text |-> t] :
        im \in {InMemoryImage} \cup {UrlImage(u) : u \in URLs}, t \in Captions}

\* isinstance(image, Image.Image)
isinstance_Image(image) == image.kind = "Image"

\* tokenizer(text): one id per word between the two special tokens, and a
\* mask of ones.
word_ids == [cls |-> 1, sep |-> 2, unk |-> 3, a |-> 4, dog |-> 5]
token_id(w) == IF w \in DOMAIN word_ids THEN word_ids[w] ELSE word_ids.unk
tokenizer(text) ==
    LET ids == <<word_ids.cls>> \o [p \in DOMAIN text |-> token_id(text[p])]
               \o <<word_ids.sep>>
    IN  [input_ids |-> ids, attention_mask |-> [p \in DOMAIN ids |-> 1]]

\* image_processor(img): the pixel tensor of a batch of one image.
image_processor(img) == [pixel_values |-> <<img>>]

\* requests.get(url, timeout=...): a response, or the exception raised.
requests_get(image, w) ==
    LET met == w[image.url]
    IN  CASE met.outcome = "timeout" -> [raised |-> Exc("Timeout")]
          [] met.outcome = "connection_error" -> [raised |-> Exc("ConnectionError")]
          [] OTHER -> [raised |-> NoError, response |-> met]

\* response.raise_for_status()
raise_for_status(response) ==
    IF response.status >= 400 /\ response.status < 600 THEN Exc("HTTPError") ELSE NoError

\* Image.open(BytesIO(response.content)): the image, or the exception raised.
Image_open(content) ==
    IF content = "image" THEN [raised |-> NoError, img |-> Some(2)]
    ELSE [raised |-> Exc("UnidentifiedImageError")]

\* Mutant: except requests.RequestException alone.
IsCaughtRequestOnly(exc) == "RequestException" \in exc.bases

\* except (requests.RequestException, IOError)
IsCaught(exc) == exc.bases \cap {"RequestException", "IOError"} # {}

NullSample == [pixel_values |-> None, input_ids |-> None, attention_mask |-> None]

Encode(img, text) ==
    LET image_input == image_processor(img)
        text_input == tokenizer(text)
    IN  [pixel_values |-> Some(image_input.pixel_values),
         input_ids |-> Some(text_input.input_ids),
         attention_mask |-> Some(text_input.attention_mask)]

\* Mutant: the except clause fetches once more before giving up.
on_exception_retry(exc, gets) ==
    [out |-> NullSample, gets |-> gets + 1, warnings |-> 1, raised |-> NoError]

\* The except clause of prepare_dataset, met by exception exc after `gets`
\* GET requests: a warning and the null sample if it catches exc, else exc
\* leaves prepare_dataset.
on_exception(exc, gets) ==
    IF IsCaught(exc)
    THEN [out |-> NullSample, gets |-> gets, warnings |-> 1, raised |-> NoError]
    ELSE [out |-> NullSample, gets |-> gets, warnings |-> 0, raised |-> exc]

\* prepare_dataset(sample): the encoded sample, the GET requests issued, the
\* warnings logged, and the exception that leaves it, if any.
prepare_dataset(sample, image_column_name, text_column_name, w) ==
    LET image == sample[image_column_name]
        text == sample[text_column_name]
    IN  IF isinstance_Image(image)
        THEN [out |-> Encode(image.data, text), gets |-> 0, warnings |-> 0,
              raised |-> NoError]
        ELSE LET got == requests_get(image, w)
             IN  IF got.raised # NoError THEN on_exception(got.raised, 1)
                 ELSE IF raise_for_status(got.response) # NoError
                 THEN on_exception(raise_for_status(got.response), 1)
                 ELSE LET opened == Image_open(got.response.content)
                      IN  IF opened.raised # NoError THEN on_exception(opened.raised, 1)
                          ELSE IF opened.img = None
                          THEN [out |-> NullSample, gets |-> 1, warnings |-> 1,
                                raised |-> NoError]
                          ELSE [out |-> Encode(opened.img.val, text), gets |-> 1,
                                warnings |-> 0, raised |-> NoError]

\* The filter's lambda.
not_null(x) ==
    x.pixel_values # None /\ x.input_ids # None /\ x.attention_mask # None

\* Dataset.filter: the rows the predicate accepts, from row i on, in order.
RECURSIVE filter_from(_, _)
filter_from(rows, i) ==
    IF i > Len(rows) THEN <<>>
    ELSE (IF not_null(rows[i]) THEN <<rows[i]>> ELSE <<>>) \o filter_from(rows, i + 1)

\* Mutant: the mapped dataset is returned unfiltered.
dataset_unfiltered(rows) == rows

dataset_filter(rows) == filter_from(rows, 1)

\* Dataset.map calls prepare_dataset on the rows in order and stops at the
\* first row whose call raises: the results of the rows called.
RECURSIVE map_from(_, _, _, _, _)
map_from(rows, i, image_column_name, text_column_name, w) ==
    IF i > Len(rows) THEN <<>>
    ELSE LET r == prepare_dataset(rows[i], image_column_name, text_column_name, w)
         IN  IF r.raised # NoError THEN <<r>>
             ELSE <<r>> \o map_from(rows, i + 1, image_column_name, text_column_name, w)

\* process_dataset(dataset): map, then filter.
process_dataset(rows, image_column_name, text_column_name, w) ==
    LET results == map_from(rows, 1, image_column_name, text_column_name, w)
        failed == {i \in DOMAIN results : results[i].raised # NoError}
        mapped == [i \in DOMAIN results |-> results[i].out]
    IN  [PIL_dataset |-> mapped,
         filtered_dataset |-> IF failed = {} THEN dataset_filter(mapped) ELSE <<>>,
         gets |-> [i \in DOMAIN results |-> results[i].gets],
         warnings |-> [i \in DOMAIN results |-> results[i].warnings],
         raised |-> IF failed = {} THEN NoError
                    ELSE results[CHOOSE i \in failed : TRUE].raised]

\* One call of process_dataset.
ProcessDataset ==
    /\ p_pc = "call"
    /\ LET r == process_dataset(dataset, "image", "text", web)
       IN  /\ PIL_dataset' = r.PIL_dataset
           /\ filtered_dataset' = r.filtered_dataset
           /\ p_gets' = r.gets
           /\ p_warnings' = r.warnings
           /\ p_raised' = r.raised
           /\ p_pc' = IF r.raised = NoError THEN "returned" ELSE "raised"
    /\ UNCHANGED <<dataset, web, collator_vars, loader_vars, main_vars>>

-----------------------------------------------------------------------------
(* main *)

\* The dataset the arguments name, as the hub serves it: its columns, its
\* splits, and what the web answers for the URLs of its rows.
HubColumns == {"image", "text"}
HubSplits ==
    [train |->
        << [image |-> InMemoryImage, text |-> <<"a", "dog">>],
           [image |-> UrlImage("http://a/1.jpg"), text |-> <<"a", "cat">>],
           [image |-> UrlImage("http://b/2.jpg"), text |-> <<"broken">>] >>,
     validation |->
        << [image |-> UrlImage("http://a/1.jpg"), text |-> <<"a", "dog">>] >>]
HubWeb ==
    [u \in URLs |-> IF u = "http://a/1.jpg" THEN Response(200, "image")
                    ELSE Response(404, "garbage")]

\* The configurations a model identifier may name.
HubConfigs ==
    {[architectures |-> a] :
        a \in {None, Some(<<>>), Some(<<GitForCausalLM>>),
               Some(<<BlipForConditionalGeneration>>), Some(<<SomeUnknownArch>>)}}

\* The fields the DataTrainingArguments dataclass declares.
DataTrainingArgumentsFields ==
    {"dataset_name", "dataset_config_name", "max_train_samples", "max_eval_samples",
     "image_column_name", "text_column_name", "preprocessing_only",
     "train_split_name", "eval_split_name", "requests_timeout"}

\* The command lines (or JSON files) of the model: every combination of the
\* switches and optional fields main() branches on.
ModelArguments ==
    [model_name_or_path : {None, Some("microsoft/git-base")},
     overwrite_vocabulary : BOOLEAN]
DataTrainingArguments ==
    [dataset_name : {"user/captions"},
     dataset_config_name : {None},
     max_train_samples : {None, Some(1)},
     max_eval_samples : {None, Some(2)},
     image_column_name : {"image", "picture"},
     text_column_name : {"text", "caption"},
     preprocessing_only : BOOLEAN,
     train_split_name : {"train"},
     eval_split_name : {None, Some("validation")},
     requests_timeout : {1}]
ImageCapTrainingArguments ==
    [do_train : BOOLEAN, do_eval : BOOLEAN, local_rank : {-1, 0},
     output_dir : {"out"}]

\* is_main_process(local_rank)
is_main_process(local_rank) == local_rank \in {-1, 0}

Event(op, arg) == [op |-> op, arg |-> arg]
Raised(type, at) == [type |-> type, at |-> at]

\* main() ends with an exception.
Abort(exc) ==
    /\ pc' = "aborted"
    /\ m_raised' = exc

\* 1. HfArgumentParser: the three records, or an error when the required
\* model identifier is missing.
ParseArgs ==
    /\ pc = "parse"
    /\ \E m \in ModelArguments, d \in DataTrainingArguments,
          t \in ImageCapTrainingArguments :
        /\ args' = [model_args |-> m, data_args |-> d, training_args |-> t]
        /\ IF m.model_name_or_path = None
           THEN Abort(Raised("ArgumentError", "parse"))
           ELSE pc' = "load_dataset" /\ m_raised' = m_raised
    /\ UNCHANGED <<raw_datasets, vectorized_datasets, config, m_model, trace,
                   collator_vars, loader_vars, prep_vars>>

\* Dataset.train_test_split(test_size=0.15): the sizes of the two parts, then
\* a shuffle: the first n_test rows of a permutation are the test part.
TestPercent == 15
n_test_of(n) == (TestPercent * n + 99) \div 100
train_test_split(rows, perm) ==
    LET n == Len(rows)
        n_test == n_test_of(n)
    IN  [test |-> [k \in 1..n_test |-> rows[perm[k]]],
         train |-> [k \in 1..(n - n_test) |-> rows[perm[n_test + k]]]]

load_dataset_event(name, config_name, split) ==
    [op |-> "load_dataset", arg |-> split, name |-> name, config_name |-> config_name]

\* 3. Load dataset.
LoadDataset ==
    /\ pc = "load_dataset"
    /\ LET d == args.data_args
           t == args.training_args
           loaded == IF t.do_train THEN [train |-> HubSplits[d.train_split_name]]
                     ELSE EmptyDatasetDict
           calls == IF t.do_train
                    THEN <<load_dataset_event(d.dataset_name, d.dataset_config_name,
                                              d.train_split_name)>>
                    ELSE <<>>
       IN  IF t.do_eval /\ d.eval_split_name # None
           THEN IF "dataset_name_or_path" \notin DataTrainingArgumentsFields
                THEN /\ Abort(Raised("AttributeError", "load_dataset"))
                     /\ raw_datasets' = loaded
                     /\ trace' = trace \o calls
                ELSE IF "dataset_subset_name" \notin DataTrainingArgumentsFields
                THEN /\ Abort(Raised("AttributeError", "load_dataset"))
                     /\ raw_datasets' = loaded
                     /\ trace' = trace \o calls
                ELSE /\ raw_datasets' =
                            loaded @@ [validation |-> HubSplits[d.eval_split_name.val]]
                     /\ trace' = trace \o calls \o
                            <<load_dataset_event(d["dataset_name_or_path"],
                                                 d["dataset_subset_name"],
                                                 d.eval_split_name.val)>>
                     /\ pc' = "check_columns"
                     /\ m_raised' = m_raised
           ELSE IF d.eval_split_name = None
           THEN IF "train" \notin DOMAIN loaded
                THEN /\ Abort(Raised("KeyError", "load_dataset"))
                     /\ raw_datasets' = loaded
                     /\ trace' = trace \o calls
                ELSE IF Len(loaded.train) - n_test_of(Len(loaded.train)) = 0
                THEN /\ Abort(Raised("ValueError", "load_dataset"))
                     /\ raw_datasets' = loaded
                     /\ trace' = trace \o calls
                ELSE \E perm \in Permutations(1..Len(loaded.train)) :
                     LET new_dataset == train_test_split(loaded.train, perm)
                     IN  /\ raw_datasets' = [train |-> new_dataset.train,
                                             validation |-> new_dataset.test]
                         /\ trace' = trace \o calls \o <<Event("train_test_split", "train")>>
                         /\ pc' = "check_columns"
                         /\ m_raised' = m_raised
           ELSE /\ raw_datasets' = loaded
                /\ trace' = trace \o calls
                /\ pc' = "check_columns"
                /\ m_raised' = m_raised
    /\ UNCHANGED <<args, vectorized_datasets, config, m_model,
                   collator_vars, loader_vars, prep_vars>>

\* The two column checks after the dataset load, each on the columns of the
\* first split of raw_datasets (every split of the dataset has HubColumns);
\* next() on an empty DatasetDict raises StopIteration.
CheckColumns ==
    /\ pc = "check_columns"
    /\ IF DOMAIN raw_datasets = {}
       THEN Abort(Raised("StopIteration", "check_columns"))
       ELSE IF args.data_args.image_column_name \notin HubColumns
       THEN Abort(Raised("ValueError", "check_columns"))
       ELSE IF args.data_args.text_column_name \notin HubColumns
       THEN Abort(Raised("ValueError", "check_columns"))
       ELSE pc' = "load_processors" /\ m_raised' = m_raised
    /\ UNCHANGED <<args, raw_datasets, vectorized_datasets, config, m_model, trace,
                   collator_vars, loader_vars, prep_vars>>

\* 4. Load processor and config.
LoadProcessors ==
    /\ pc = "load_processors"
    /\ config' \in HubConfigs
    /\ trace' = trace \o <<Event("from_pretrained", "AutoConfig"),
                           Event("from_pretrained", "AutoImageProcessor"),
                           Event("from_pretrained", "AutoTokenizer")>>
    /\ pc' = "truncate"
    /\ UNCHANGED <<args, raw_datasets, vectorized_datasets, m_model, m_raised,
                   collator_vars, loader_vars, prep_vars>>

\* Dataset.select(range(n)) on a split of a DatasetDict.
select_range(dd, split, n) ==
    IF split \notin DOMAIN dd THEN [raised |-> "KeyError", dd |-> dd]
    ELSE IF n > Len(dd[split]) THEN [raised |-> "IndexError", dd |-> dd]
    ELSE [raised |-> "none", dd |-> [dd EXCEPT ![split] = SubSeq(dd[split], 1, n)]]

\* 5. The debug truncation of the two splits.
Truncate ==
    /\ pc = "truncate"
    /\ LET d == args.data_args
           a == IF d.max_train_samples # None
                THEN select_range(raw_datasets, "train", d.max_train_samples.val)
                ELSE [raised |-> "none", dd |-> raw_datasets]
           b == IF a.raised = "none" /\ d.max_eval_samples # None
                THEN select_range(a.dd, "validation", d.max_eval_samples.val)
                ELSE a
       IN  /\ raw_datasets' = b.dd
           /\ IF b.raised # "none" THEN Abort(Raised(b.raised, "truncate"))
              ELSE pc' = "preprocess" /\ m_raised' = m_raised
    /\ UNCHANGED <<args, vectorized_datasets, config, m_model, trace,
                   collator_vars, loader_vars, prep_vars>>

\* The calls process_dataset makes on a split, in order: prepare_dataset on
\* each row, and inside it the GET requests of that row.
RECURSIVE row_calls(_, _, _)
row_calls(split, gets, i) ==
    IF i > Len(gets) THEN <<>>
    ELSE <<Event("prepare_dataset", split)>>
         \o [k \in 1..gets[i] |-> Event("requests.get", split)]
         \o row_calls(split, gets, i + 1)

\* 6. remove_columns, process_dataset on the splits of the enabled phases,
\* and the return of a preprocessing-only run.
Preprocess ==
    /\ pc = "preprocess"
    /\ LET d == args.data_args
           t == args.training_args
           prepared(split) == process_dataset(raw_datasets[split], d.image_column_name,
                                              d.text_column_name, HubWeb)
           calls(split) == row_calls(split, prepared(split).gets, 1)
       IN  IF "train" \notin DOMAIN raw_datasets
           THEN /\ Abort(Raised("KeyError", "preprocess"))
                /\ UNCHANGED <<vectorized_datasets, trace>>
           ELSE IF t.do_train /\ prepared("train").raised # NoError
           THEN /\ Abort(Raised(prepared("train").raised.type, "preprocess"))
                /\ trace' = trace \o calls("train")
                /\ UNCHANGED vectorized_datasets
           ELSE IF t.do_eval /\ "validation" \notin DOMAIN raw_datasets
           THEN /\ Abort(Raised("KeyError", "preprocess"))
                /\ trace' = trace \o (IF t.do_train THEN calls("train") ELSE <<>>)
                /\ vectorized_datasets' =
                        IF t.do_train
                        THEN [train |-> prepared("train").filtered_dataset]
                        ELSE EmptyDatasetDict
           ELSE IF t.do_eval /\ prepared("validation").raised # NoError
           THEN /\ Abort(Raised(prepared("validation").raised.type, "preprocess"))
                /\ trace' = trace \o (IF t.do_train THEN calls("train") ELSE <<>>)
                                  \o calls("validation")
                /\ vectorized_datasets' =
                        IF t.do_train
                        THEN [train |-> prepared("train").filtered_dataset]
                        ELSE EmptyDatasetDict
           ELSE /\ vectorized_datasets' =
                        (IF t.do_train
                         THEN [train |-> prepared("train").filtered_dataset]
                         ELSE EmptyDatasetDict)
                        @@ (IF t.do_eval
                            THEN [validation |-> prepared("validation").filtered_dataset]
                            ELSE EmptyDatasetDict)
                /\ trace' = trace \o (IF t.do_train THEN calls("train") ELSE <<>>)
                                  \o (IF t.do_eval THEN calls("validation") ELSE <<>>)
                /\ pc' = IF d.preprocessing_only THEN "returned" ELSE "load_model"
                /\ m_raised' = m_raised
    /\ UNCHANGED <<args, raw_datasets, config, m_model,
                   collator_vars, loader_vars, prep_vars>>

\* 7. Load pretrained model.
LoadPretrained ==
    /\ pc = "load_model"
    /\ LET r == load_model(args.model_args.model_name_or_path.val, config)
       IN  /\ trace' = trace
                \o [k \in DOMAIN r.loads |-> Event("from_pretrained", r.loads[k].auto_class)]
                \o [k \in 1..r.warnings |-> Event("warning", "Unknown architecture")]
           /\ IF r.raised # NoError
              THEN Abort(Raised(r.raised.type, "load_model")) /\ m_model' = m_model
              ELSE m_model' = r.ret /\ pc' = "resize" /\ m_raised' = m_raised
    /\ UNCHANGED <<args, raw_datasets, vectorized_datasets, config,
                   collator_vars, loader_vars, prep_vars>>

\* The vocabulary resize: on a null model the attribute lookup raises, the
\* except clause logs a warning and raises again.
ResizeVocabulary ==
    /\ pc = "resize"
    /\ IF args.model_args.overwrite_vocabulary
       THEN IF m_model = None
            THEN /\ Abort(Raised("AttributeError", "resize"))
                 /\ trace' = trace \o <<Event("warning", "Failed to resize token embeddings")>>
            ELSE /\ trace' = trace \o <<Event("resize_token_embeddings", "model")>>
                 /\ pc' = "save"
                 /\ m_raised' = m_raised
       ELSE /\ pc' = "save"
            /\ UNCHANGED <<trace, m_raised>>
    /\ UNCHANGED <<args, raw_datasets, vectorized_datasets, config, m_model,
                   collator_vars, loader_vars, prep_vars>>

\* Mutant: nothing is saved before training.
save_nothing(local_rank) == <<>>

\* 8. The save_pretrained calls of the main process, in order.
save_calls(local_rank) ==
    IF is_main_process(local_rank)
    THEN <<Event("save_pretrained", "image_processor"),
           Event("save_pretrained", "tokenizer"),
           Event("save_pretrained", "config")>>
    ELSE <<>>

SaveProcessors ==
    /\ pc = "save"
    /\ trace' = trace \o save_calls(args.training_args.local_rank)
    /\ pc' = "trainer"
    /\ UNCHANGED <<args, raw_datasets, vectorized_datasets, config, m_model, m_raised,
                   collator_vars, loader_vars, prep_vars>>

\* 9, 10. The collator and the Trainer; the Trainer's constructor raises when
\* it is given neither a model nor a model_init.
BuildTrainer ==
    /\ pc = "trainer"
    /\ IF m_model = None
       THEN /\ trace' = trace \o <<Event("Trainer", "None")>>
            /\ Abort(Raised("RuntimeError", "trainer"))
       ELSE /\ trace' = trace \o <<Event("Trainer", "model")>>
            /\ pc' = "train"
            /\ m_raised' = m_raised
    /\ UNCHANGED <<args, raw_datasets, vectorized_datasets, config, m_model,
                   collator_vars, loader_vars, prep_vars>>

train_calls ==
    <<Event("train", "trainer"), Event("save_model", "trainer"),
      Event("log_metrics", "train"), Event("save_metrics", "train"),
      Event("save_state", "trainer")>>

eval_calls ==
    <<Event("evaluate", "trainer"), Event("log_metrics", "eval"),
      Event("save_metrics", "eval")>>

\* The training branch.
Train ==
    /\ pc = "train"
    /\ trace' = trace \o (IF args.training_args.do_train THEN train_calls ELSE <<>>)
    /\ pc' = "eval"
    /\ UNCHANGED <<args, raw_datasets, vectorized_datasets, config, m_model, m_raised,
                   collator_vars, loader_vars, prep_vars>>

\* The evaluation branch, and the end of main().
Evaluate ==
    /\ pc = "eval"
    /\ trace' = trace \o (IF args.training_args.do_eval THEN eval_calls ELSE <<>>)
    /\ pc' = "returned"
    /\ UNCHANGED <<args, raw_datasets, vectorized_datasets, config, m_model, m_raised,
                   collator_vars, loader_vars, prep_vars>>

-----------------------------------------------------------------------------
(* Specifications *)

\* The collator, called once on any list of at most MaxBatch features.
InitCollator ==
    /\ features \in SeqsOf(Feature, 0, MaxBatch)
    /\ c_pc = "call"
    /\ batch = NoBatch
    /\ c_raised = NoError
    /\ c_errors = <<>>
    /\ architectures = None
    /\ l_pc = "idle"
    /\ model = None
    /\ l_raised = NoError
    /\ l_warnings = 0
    /\ l_loads = <<>>
    /\ dataset = <<>>
    /\ web = [u \in URLs |-> [outcome |-> "timeout"]]
    /\ p_pc = "idle"
    /\ PIL_dataset = <<>>
    /\ filtered_dataset = <<>>
    /\ p_gets = <<>>
    /\ p_warnings = <<>>
    /\ p_raised = NoError
    /\ pc = "idle"
    /\ args = NoArgs
    /\ raw_datasets = EmptyDatasetDict
    /\ vectorized_datasets = EmptyDatasetDict
    /\ config = Unset
    /\ m_model = Unset
    /\ m_raised = NoError
    /\ trace = <<>>

NextCollator == CollateInvalid \/ CollateEmpty \/ CollateBatch

SpecCollator == InitCollator /\ [][NextCollator]_vars

\* load_model, called once on any configuration declaring at most MaxArchs
\* architecture names, or none.
InitLoader ==
    /\ features = <<>>
    /\ c_pc = "idle"
    /\ batch = NoBatch
    /\ c_raised = NoError
    /\ c_errors = <<>>
    /\ architectures \in {None} \cup {Some(a) : a \in SeqsOf(ArchNames, 0, MaxArchs)}
    /\ l_pc = "call"
    /\ model = None
    /\ l_raised = NoError
    /\ l_warnings = 0
    /\ l_loads = <<>>
    /\ dataset = <<>>
    /\ web = [u \in URLs |-> [outcome |-> "timeout"]]
    /\ p_pc = "idle"
    /\ PIL_dataset = <<>>
    /\ filtered_dataset = <<>>
    /\ p_gets = <<>>
    /\ p_warnings = <<>>
    /\ p_raised = NoError
    /\ pc = "idle"
    /\ args = NoArgs
    /\ raw_datasets = EmptyDatasetDict
    /\ vectorized_datasets = EmptyDatasetDict
    /\ config = Unset
    /\ m_model = Unset
    /\ m_raised = NoError
    /\ trace = <<>>

NextLoader == LoadModel

SpecLoader == InitLoader /\ [][NextLoader]_vars

\* process_dataset, called once on any raw dataset of at most MaxRows rows,
\* with any answer of the web to each URL.
InitPrep ==
    /\ features = <<>>
    /\ c_pc = "idle"
    /\ batch = NoBatch
    /\ c_raised = NoError
    /\ c_errors = <<>>
    /\ architectures = None
    /\ l_pc = "idle"
    /\ model = None
    /\ l_raised = NoError
    /\ l_warnings = 0
    /\ l_loads = <<>>
    /\ dataset \in SeqsOf(RawSample, 0, MaxRows)
    /\ web \in [URLs -> WebResponses]
    /\ p_pc = "call"
    /\ PIL_dataset = <<>>
    /\ filtered_dataset = <<>>
    /\ p_gets = <<>>
    /\ p_warnings = <<>>
    /\ p_raised = NoError
    /\ pc = "idle"
    /\ args = NoArgs
    /\ raw_datasets = EmptyDatasetDict
    /\ vectorized_datasets = EmptyDatasetDict
    /\ config = Unset
    /\ m_model = Unset
    /\ m_raised = NoError
    /\ trace = <<>>

NextPrep == ProcessDataset

SpecPrep == InitPrep /\ [][NextPrep]_vars

\* One run of main(), on any command line.
InitMain ==
    /\ features = <<>>
    /\ c_pc = "idle"
    /\ batch = NoBatch
    /\ c_raised = NoError
    /\ c_errors = <<>>
    /\ architectures = None
    /\ l_pc = "idle"
    /\ model = None
    /\ l_raised = NoError
    /\ l_warnings = 0
    /\ l_loads = <<>>
    /\ dataset = <<>>
    /\ web = HubWeb
    /\ p_pc = "idle"
    /\ PIL_dataset = <<>>
    /\ filtered_dataset = <<>>
    /\ p_gets = <<>>
    /\ p_warnings = <<>>
    /\ p_raised = NoError
    /\ pc = "parse"
    /\ args = NoArgs
    /\ raw_datasets = EmptyDatasetDict
    /\ vectorized_datasets = EmptyDatasetDict
    /\ config = Unset
    /\ m_model = Unset
    /\ m_raised = NoError
    /\ trace = <<>>

NextMain ==
    \/ ParseArgs
    \/ LoadDataset
    \/ CheckColumns
    \/ LoadProcessors
    \/ Truncate
    \/ Preprocess
    \/ LoadPretrained
    \/ ResizeVocabulary
    \/ SaveProcessors
    \/ BuildTrainer
    \/ Train
    \/ Evaluate

SpecMain == InitMain /\ [][NextMain]_vars

-----------------------------------------------------------------------------
(* Properties of the collator (SpecCollator) *)

\* C1: in every returned batch, labels[r][p] is -100 at every padding
\* position of row r (p beyond the original length of row r's input_ids) and
\* the original token id at every other position, also when a real token id
\* equals pad_token_id.
C1_LabelsMaskExactlyPadding ==
    c_pc = "returned" =>
        \A r \in DOMAIN features :
            \A p \in DOMAIN batch.labels[r] :
                batch.labels[r][p] =
                    IF p > Len(features[r].input_ids) THEN IgnoreIndex
                    ELSE features[r].input_ids[p]

\* The features of the call that lack the input_ids key (1-based positions).
Malformed == {i \in DOMAIN features : "input_ids" \notin DOMAIN features[i]}

\* C5 as claimed: with a malformed sample the call ends in a data-integrity
\* error, no batch is produced, and the raised error reports the count and
\* the indices of the malformed samples.
C5_ErrorReportsCountAndIndices ==
    (c_pc # "call" /\ Malformed # {}) =>
        /\ c_pc = "raised"
        /\ batch = NoBatch
        /\ c_raised.type = "ValueError"
        /\ c_raised.e = Cardinality(Malformed)
        /\ "indices" \in DOMAIN c_raised
        /\ c_raised.indices = {i - 1 : i \in Malformed}

\* C5 as amended: with a malformed sample the call ends in a data-integrity
\* error and no batch is produced; the raised error reports the count of
\* malformed samples (out of the number of samples), and the index of each
\* malformed sample is reported in an error log line of its own, in order,
\* before the error is raised.
C5_HardStopReportsCount ==
    (c_pc # "call" /\ Malformed # {}) =>
        /\ c_pc = "raised"
        /\ batch = NoBatch
        /\ c_raised = [type |-> "ValueError", e |-> Cardinality(Malformed),
                       n |-> Len(features)]
        /\ Len(c_errors) = Cardinality(Malformed)
        /\ \A k \in DOMAIN c_errors : c_errors[k] + 1 \in Malformed
        /\ \A k \in DOMAIN c_errors : \A j \in DOMAIN c_errors :
                k < j => c_errors[k] < c_errors[j]

\* A batch of two malformed samples was refused.
C5_Witness ==
    /\ c_pc = "raised"
    /\ Len(features) = 2
    /\ Malformed = {1, 2}
    /\ c_raised.type = "ValueError"

-----------------------------------------------------------------------------
(* Properties of load_model (SpecLoader) *)

FirstName == architectures.val[1]
NoNameDeclared == architectures = None \/ Len(architectures.val) = 0
RaisedConfigurationError ==
    /\ l_pc = "raised"
    /\ l_raised.type = "ValueError"
    /\ l_loads = <<>>
    /\ l_warnings = 0
LoadedThrough(auto_class) ==
    /\ l_pc = "returned"
    /\ Len(l_loads) = 1
    /\ l_loads[1].auto_class = auto_class
    /\ model = Some(l_loads[1])
    /\ l_warnings = 0
ReturnedNoModel ==
    /\ l_pc = "returned"
    /\ model = None
    /\ l_warnings = 1
    /\ l_loads = <<>>

\* The dispatch on a declared first name, as the claim states it.
DispatchedOn(name) ==
    IF IsSubstring(GitForCausalLM, name) THEN LoadedThrough("AutoModelForCausalLM")
    ELSE IF \/ IsSubstring(BlipForConditionalGeneration, name)
            \/ IsSubstring(VisionEncoderDecoderModel, name)
         THEN LoadedThrough("AutoModelForVision2Seq")
         ELSE ReturnedNoModel

\* C4 as claimed: load_model looks only at the first declared name; a name
\* containing GitForCausalLM selects the causal-LM loader, else a name
\* containing BlipForConditionalGeneration or VisionEncoderDecoderModel the
\* vision-to-sequence loader, a name containing no fragment yields None with
\* one warning and no loader call, and an empty or absent list raises a
\* configuration error with no loader call.
C4_DispatchOnFirstName ==
    l_pc # "call" =>
        IF NoNameDeclared THEN RaisedConfigurationError ELSE DispatchedOn(FirstName)

\* C4 as amended: as claimed, except that an empty first name raises the
\* configuration error of an empty list instead of yielding None.
C4_DispatchOnNonEmptyFirstName ==
    l_pc # "call" =>
        IF NoNameDeclared \/ FirstName = <<>> THEN RaisedConfigurationError
        ELSE DispatchedOn(FirstName)

\* A first name holding VisionEncoderDecoderModel before GitForCausalLM,
\* followed by a second name of the other category, went to the causal-LM
\* loader.
C4_Witness ==
    /\ l_pc = "returned"
    /\ architectures # None
    /\ Len(architectures.val) = 2
    /\ architectures.val[1] = VisionEncoderDecoderModel \o GitForCausalLM
    /\ architectures.val[2] = BlipForConditionalGeneration
    /\ LoadedThrough("AutoModelForCausalLM")

-----------------------------------------------------------------------------
(* Properties of prepare_dataset and process_dataset (SpecPrep) *)

IsUrlRow(i) == dataset[i].image.kind = "str"
Met(i) == web[dataset[i].image.url]
AllNonNull(x) == x.pixel_values # None /\ x.input_ids # None /\ x.attention_mask # None
AnyNull(x) == x.pixel_values = None \/ x.input_ids = None \/ x.attention_mask = None

\* The k-th smallest element of a set of positions.
Kth(S, k) == CHOOSE i \in S : Cardinality({j \in S : j <= i}) = k

\* C2: process_dataset maps every row and returns exactly the
\* order-preserving subsequence of the mapped samples whose three fields are
\* all non-null; filtering the result again changes nothing.
C2_FilterKeepsExactlyNonNull ==
    p_pc = "returned" =>
        LET keep == {i \in DOMAIN PIL_dataset : AllNonNull(PIL_dataset[i])}
        IN  /\ Len(PIL_dataset) = Len(dataset)
            /\ Len(filtered_dataset) = Cardinality(keep)
            /\ \A k \in DOMAIN filtered_dataset :
                    /\ filtered_dataset[k] = PIL_dataset[Kth(keep, k)]
                    /\ ~AnyNull(filtered_dataset[k])
            /\ dataset_filter(filtered_dataset) = filtered_dataset

\* Three rows (an in-memory image, a URL that serves an image, a URL that
\* fails) gave exactly two rows.
C2_Witness ==
    /\ p_pc = "returned"
    /\ Len(dataset) = 3
    /\ ~IsUrlRow(1)
    /\ IsUrlRow(2) /\ Met(2) = Response(200, "image")
    /\ IsUrlRow(3) /\ Met(3) = Response(404, "garbage")
    /\ Len(filtered_dataset) = 2

NetworkError(i) == Met(i).outcome \in {"timeout", "connection_error"}
Undecodable(i) == Met(i).outcome = "response" /\ Met(i).content # "image"
NullWithOneWarning(i) ==
    /\ p_raised = NoError
    /\ Len(PIL_dataset) = Len(dataset)
    /\ PIL_dataset[i] = NullSample
    /\ p_warnings[i] = 1

C7_OneGetPerUrlRow ==
    p_pc # "call" =>
        /\ Len(p_gets) = Len(dataset)
        /\ \A i \in DOMAIN dataset : p_gets[i] = IF IsUrlRow(i) THEN 1 ELSE 0

\* An in-memory row, a row whose fetch failed and a row whose fetch
\* succeeded: 0, 1 and 1 requests.
C7_Witness ==
    /\ p_pc = "returned"
    /\ Len(dataset) = 3
    /\ ~IsUrlRow(1)
    /\ IsUrlRow(2) /\ Met(2).outcome = "connection_error"
    /\ IsUrlRow(3) /\ Met(3) = Response(200, "image")
    /\ p_gets = <<0, 1, 1>>

-----------------------------------------------------------------------------
(* Properties of main (SpecMain) *)

Called(op) == \E i \in DOMAIN trace : trace[i].op = op
CalledBefore(e, i) == \E j \in 1..(i - 1) : trace[j] = e
OpBefore(op, i) == \E j \in 1..(i - 1) : trace[j].op = op

Parsed == args # NoArgs
MissingModelIdentifier == Parsed /\ args.model_args.model_name_or_path = None
MissingColumn ==
    /\ Parsed
    /\ \/ args.data_args.image_column_name \notin HubColumns
       \/ args.data_args.text_column_name \notin HubColumns
EmptyArchitectureList == config # Unset /\ ~Truthy(config.architectures)

\* C6: a missing model identifier aborts the run before any dataset load; a
\* missing image or text column, or an empty architecture list, aborts it
\* before any row is mapped (so before any HTTP fetch) and before any
\* training; no run with such a configuration completes normally.
C6_ConfigurationErrorsFailFast ==
    /\ MissingModelIdentifier => (pc = "aborted" /\ ~Called("load_dataset"))
    /\ (MissingColumn \/ EmptyArchitectureList) =>
            /\ ~Called("prepare_dataset")
            /\ ~Called("requests.get")
            /\ ~Called("train")
            /\ pc # "returned"

\* C9: once load_model has returned None, nothing is saved to the output
\* directory, no Trainer is constructed on the null model, and neither
\* train() nor evaluate() is called, whatever overwrite_vocabulary is.
C9_NullModelIsFatal ==
    m_model = None =>
        /\ ~Called("save_pretrained")
        /\ ~Called("Trainer")
        /\ ~Called("train")
        /\ ~Called("evaluate")

PastPreparation ==
    pc \in {"load_model", "resize", "save", "trainer", "train", "eval", "returned"}

\* C10: with do_train or do_eval set, whatever eval_split_name is, main()
\* gets past dataset loading and preparation with no error but the
\* configuration error of a missing column; past them a raw and a prepared
\* dataset exist for every enabled phase; and every split is loaded from the
\* configured dataset name and config name.
C10_EveryPhaseIsLoadedAndPrepared ==
    (Parsed /\ ~MissingModelIdentifier
        /\ (args.training_args.do_train \/ args.training_args.do_eval)) =>
        /\ (pc = "aborted" /\ m_raised.at \in {"load_dataset", "check_columns",
                                                "load_processors", "truncate", "preprocess"})
                => (MissingColumn /\ m_raised = Raised("ValueError", "check_columns"))
        /\ PastPreparation =>
                /\ args.training_args.do_train =>
                        "train" \in DOMAIN raw_datasets \cap DOMAIN vectorized_datasets
                /\ args.training_args.do_eval =>
                        "validation" \in DOMAIN raw_datasets \cap DOMAIN vectorized_datasets
        /\ \A i \in DOMAIN trace :
                trace[i].op = "load_dataset" =>
                    /\ trace[i].name = args.data_args.dataset_name
                    /\ trace[i].config_name = args.data_args.dataset_config_name

=============================================================================
